---- MODULE Spec2Model ----
(***************************************************************************)
(* Model of SamlProvider.get_provider_config (saml2_pro_auth/models.py).   *)
(*                                                                         *)
(* Python dicts are functions from string keys to values.  The dict        *)
(* objects that the method binds to a name and may mutate in place (the    *)
(* defaults argument, the deep copy, the assembled config) live in `heap`, *)
(* addressed by reference, so that aliasing and copying are different      *)
(* things.  Each thread runs the method statement by statement.            *)
(***************************************************************************)
EXTENDS Integers, Sequences, FiniteSets, TLC

VARIABLES
  heap,              \* the dict objects alive, by reference
  defaults0,         \* the value of the defaults template before any call
  pc,                \* per thread: the statement it is about to run
  provider,          \* per thread: self
  certs,             \* per thread: the local certs
  idp_certificates,  \* per thread: the local idp_certificates
  config,            \* per thread: the object the local config is bound to
  args,              \* per thread: keyword arguments of dict(...) so far
  result,            \* per thread: the object returned to the caller
  calls,             \* number of calls made so far
  interleaved        \* per thread: another call ran during its current call

vars == <<heap, defaults0, pc, provider, certs, idp_certificates, config,
          args, result, calls, interleaved>>

----------------------------------------------------------------------------
(* Bounds *)

NumThreads == 2
MaxCalls == 2
MaxCerts == 2

Threads == 1..NumThreads
MainThread == CHOOSE t \in Threads : \A u \in Threads : t <= u

----------------------------------------------------------------------------
(* Python dict helpers *)

EmptyDict == [k \in {} |-> {}]

\* {**a, **b}: keys of b override keys of a
Merge(a, b) == b @@ a

\* d[k] = v
SetItem(d, k, v) == (k :> v) @@ d

----------------------------------------------------------------------------
(* Database rows *)

\* PEMCertificate rows, by primary key; the first and the last are distinct
\* records with the same text
PEMCertificate ==
  << [name |-> "idp-2025", certificate |-> "CERTA"],
     [name |-> "idp-encryption", certificate |-> "CERTB"],
     [name |-> "idp-2025-again", certificate |-> "CERTA"] >>

\* rows of a many-to-many relation of one provider, in the order the
\* database returns them: each certificate record at most once
Relations ==
  {s \in UNION {[1..n -> DOMAIN PEMCertificate] : n \in 0..MaxCerts} :
     \A i, j \in DOMAIN s : i # j => s[i] # s[j]}

\* scalar columns of SamlProvider rows
ProviderFields ==
  { [idp_issuer |-> "https://idp.example/metadata",
     idp_sso_url |-> "https://idp.example/sso",
     idp_sso_binding |-> "HTTP-POST",
     nameidformat |-> "unspecified",
     sp_acs_binding |-> "HTTP-POST",
     debug |-> FALSE,
     lowercase_urlencoding |-> FALSE,
     idp_initiated_auth |-> FALSE,
     sec_want_messages_signed |-> TRUE,
     sec_want_assertions_signed |-> FALSE,
     sec_want_assertions_encrypted |-> FALSE],
    [idp_issuer |-> "http://adfs.example/trust",
     idp_sso_url |-> "https://adfs.example/ls",
     idp_sso_binding |-> "HTTP-Redirect",
     nameidformat |-> "emailAddress",
     sp_acs_binding |-> "HTTP-POST",
     debug |-> TRUE,
     lowercase_urlencoding |-> FALSE,
     idp_initiated_auth |-> TRUE,
     sec_want_messages_signed |-> FALSE,
     sec_want_assertions_signed |-> TRUE,
     sec_want_assertions_encrypted |-> FALSE] }

SamlProvider ==
  {f @@ [signing |-> s, encryption |-> e] :
     f \in ProviderFields, s \in Relations, e \in Relations}

\* the providers used when several calls run at once: one in debug mode with
\* no certificates at all, one with the first certificate in both roles
ConcurrentProviders ==
  {p \in SamlProvider :
     /\ Len(p.signing) <= 1
     /\ p.encryption = p.signing
     /\ p.debug <=> p.signing = <<>>
     /\ \A i \in DOMAIN p.signing :
          \A c \in DOMAIN PEMCertificate : p.signing[i] <= c}

----------------------------------------------------------------------------
(* Defaults templates handed to get_provider_config *)

SpDefaults ==
  { EmptyDict,
    [entityId |-> "https://sp.example/default",
     NameIDFormat |-> "transient",
     assertionConsumerService |->
       [url |-> "https://sp.example/acs", binding |-> "HTTP-Artifact"],
     x509cert |-> "SPCERT",
     privateKey |-> "SPKEY"] }

SecurityDefaults ==
  { EmptyDict,
    [wantMessagesSigned |-> FALSE,
     wantAssertionsSigned |-> TRUE,
     wantAssertionsEncrypted |-> TRUE,
     authnRequestsSigned |-> TRUE,
     signatureAlgorithm |-> "rsa-sha256"] }

\* top-level keys other than sp and security: an idp sub-object and
\* settings of the SAML library
OtherDefaults ==
  { EmptyDict,
    [idp |->
       [entityId |-> "https://old-idp.example/metadata",
        singleSignOnService |->
          [url |-> "https://old-idp.example/sso",
           binding |-> "HTTP-Artifact"],
        singleLogoutService |-> [url |-> "https://old-idp.example/slo"],
        x509cert |-> "OLDCERT",
        x509certMulti |-> [signing |-> <<"OLDCERT">>, encryption |-> <<>>]],
     strict |-> TRUE,
     debug |-> TRUE,
     contactPerson |-> "admin"] }

Optional(key, values) == {EmptyDict} \cup {key :> v : v \in values}

Templates ==
  {a @@ b @@ c :
     a \in Optional("sp", SpDefaults),
     b \in Optional("security", SecurityDefaults),
     c \in OtherDefaults}

\* the templates used when several calls run at once: with library
\* settings, and with sp and security each absent or filled in
ConcurrentTemplates ==
  {d \in Templates :
     /\ "strict" \in DOMAIN d
     /\ \A k \in {"sp", "security"} : k \in DOMAIN d => d[k] # EmptyDict}

----------------------------------------------------------------------------
(* Object heap *)

NoRef == 0
DefaultsRef == 1

Fresh(h) ==
  CHOOSE i \in 1..(Cardinality(DOMAIN h) + 1) :
    /\ i \notin DOMAIN h
    /\ \A j \in 1..(i - 1) : j \in DOMAIN h

\* objects no name refers to any more are reclaimed
Collect(h, roots) == [i \in (DOMAIN h) \cap roots |-> h[i]]

\* config = defaults: no copy is made, both names refer to one object
deepcopy_alias(h, ref) == [heap |-> h, ref |-> ref]

\* copy.deepcopy(obj): a new object, equal to obj, sharing nothing with it
deepcopy(h, ref) ==
  LET n == Fresh(h) IN [heap |-> (n :> h[ref]) @@ h, ref |-> n]

\* defaults.setdefault(key, default): the insertion goes to the template
setdefault_on_defaults(h, ref, key, default) ==
  IF key \in DOMAIN h[DefaultsRef]
    THEN h
    ELSE [h EXCEPT ![DefaultsRef] = SetItem(h[DefaultsRef], key, default),
                   ![ref] = SetItem(h[ref], key, default)]

\* obj.setdefault(key, default): inserts key when absent, in place
setdefault(h, ref, key, default) ==
  IF key \in DOMAIN h[ref]
    THEN h
    ELSE [h EXCEPT ![ref] = SetItem(h[ref], key, default)]

----------------------------------------------------------------------------
(* get_provider_config, expression by expression *)

\* values_list(...).distinct(): equal texts collapse to their first row
values_list_distinct(relation) ==
  LET keep[n \in 0..Len(relation)] ==
        IF n = 0 THEN <<>>
        ELSE IF \E j \in 1..(n - 1) :
                  PEMCertificate[relation[j]].certificate =
                    PEMCertificate[relation[n]].certificate
               THEN keep[n - 1]
               ELSE Append(keep[n - 1],
                           PEMCertificate[relation[n]].certificate)
  IN keep[Len(relation)]

\* relation.values_list("certificate", flat=True): the certificate column of
\* every related row, one entry per row
values_list(relation) ==
  [i \in 1..Len(relation) |-> PEMCertificate[relation[i]].certificate]

\* certs = dict(encryption=list(...), signing=list(...))
read_certs(self) ==
  [encryption |-> values_list(self.encryption),
   signing |-> values_list(self.signing)]

\* the key count guards both alternatives
single_certificate_one_key(c) ==
  /\ Cardinality(DOMAIN c) = 1
  /\ \/ \/ ("signing" \in DOMAIN c /\ Len(c["signing"]) = 1)
        \/ ("encryption" \in DOMAIN c /\ Len(c["encryption"]) = 1)
     \/ /\ ("signing" \in DOMAIN c /\ Len(c["signing"]) = 1)
        /\ /\ "encryption" \in DOMAIN c
           /\ Len(c["encryption"]) = 1
           /\ c["signing"][1] = c["encryption"][1]

\* the two single certificates are not compared
single_certificate_any_pair(c) ==
  \/ /\ Cardinality(DOMAIN c) = 1
     /\ \/ ("signing" \in DOMAIN c /\ Len(c["signing"]) = 1)
        \/ ("encryption" \in DOMAIN c /\ Len(c["encryption"]) = 1)
  \/ /\ ("signing" \in DOMAIN c /\ Len(c["signing"]) = 1)
     /\ /\ "encryption" \in DOMAIN c
        /\ Len(c["encryption"]) = 1

\* the key count is not tested
single_certificate_no_key_count(c) ==
  \/ \/ ("signing" \in DOMAIN c /\ Len(c["signing"]) = 1)
     \/ ("encryption" \in DOMAIN c /\ Len(c["encryption"]) = 1)
  \/ /\ ("signing" \in DOMAIN c /\ Len(c["signing"]) = 1)
     /\ /\ "encryption" \in DOMAIN c
        /\ Len(c["encryption"]) = 1
        /\ c["signing"][1] = c["encryption"][1]

\* the condition of the if statement choosing the single-certificate field;
\* `and` / `or` evaluate left to right and stop early, as /\ and \/ do
single_certificate(c) ==
  \/ /\ Cardinality(DOMAIN c) = 1
     /\ \/ ("signing" \in DOMAIN c /\ Len(c["signing"]) = 1)
        \/ ("encryption" \in DOMAIN c /\ Len(c["encryption"]) = 1)
  \/ /\ ("signing" \in DOMAIN c /\ Len(c["signing"]) = 1)
     /\ /\ "encryption" \in DOMAIN c
        /\ Len(c["encryption"]) = 1
        /\ c["signing"][1] = c["encryption"][1]

\* lst[0]; raises IndexError on an empty list
IndexError == "IndexError"
first(lst) == IF Len(lst) >= 1 THEN lst[1] ELSE IndexError

\* idp_certificates after the certificate selection (certs is never None)
select_certificates(c) ==
  IF single_certificate(c)
    THEN IF "signing" \in DOMAIN c
           THEN "x509cert" :> first(c["signing"])
           ELSE "x509cert" :> first(c["encryption"])
    ELSE "x509certMulti" :> c

raises(idp_certs) ==
  "x509cert" \in DOMAIN idp_certs /\ idp_certs["x509cert"] = IndexError

\* idp={**config.get("idp", {}), "entityId": ..., ...}: merged with defaults
idp_section_overlay(self, cfg, idp_certs) ==
  Merge(IF "idp" \in DOMAIN cfg THEN cfg["idp"] ELSE EmptyDict,
        Merge([entityId |-> self.idp_issuer,
               singleSignOnService |->
                 [url |-> self.idp_sso_url,
                  binding |-> self.idp_sso_binding]],
              idp_certs))

\* idp={"entityId": ..., "singleSignOnService": dict(...), **idp_certificates}
idp_section(self, cfg, idp_certs) ==
  Merge([entityId |-> self.idp_issuer,
         singleSignOnService |->
           [url |-> self.idp_sso_url, binding |-> self.idp_sso_binding]],
        idp_certs)

\* sp={**{...}, **config.setdefault("sp", dict())}: the defaults win
sp_section_defaults_win(self, sp) ==
  Merge([entityId |-> "",
         NameIDFormat |-> self.nameidformat,
         assertionConsumerService |->
           [url |-> "", binding |-> self.sp_acs_binding]],
        sp)

\* sp={**config.setdefault("sp", dict()), **{...}}, given the sp sub-object
sp_section(self, sp) ==
  Merge(sp,
        [entityId |-> "",
         NameIDFormat |-> self.nameidformat,
         assertionConsumerService |->
           [url |-> "", binding |-> self.sp_acs_binding]])

\* security={**config.setdefault("security", dict()), **{...}}
security_section(self, security) ==
  Merge(security,
        [wantMessagesSigned |-> self.sec_want_messages_signed,
         wantAssertionsSigned |-> self.sec_want_assertions_signed,
         wantAssertionsEncrypted |-> self.sec_want_assertions_encrypted])

\* config.update(idp=..., sp=..., security=...): the copy's other keys stay
assemble_update(cfg, a) ==
  Merge(cfg, [idp |-> a["idp"], sp |-> a["sp"], security |-> a["security"]])

\* config = dict(idp=..., sp=..., security=...): the new dict, given the
\* dict the name config was bound to before
assemble(cfg, a) ==
  [idp |-> a["idp"], sp |-> a["sp"], security |-> a["security"]]

\* config["debug"] = ...; config["lowercase_urlencoding"] = ...;
\* config["idp_initiated_auth"] = ...
set_flags(self, cfg) ==
  SetItem(SetItem(SetItem(cfg, "debug", self.debug),
                  "lowercase_urlencoding", self.lowercase_urlencoding),
          "idp_initiated_auth", self.idp_initiated_auth)

----------------------------------------------------------------------------
(* State machine *)

Finished == {"idle", "done", "raised"}

Running(t) == pc[t] \notin Finished

\* bookkeeping: a step taken while two calls are running marks both
Interleave ==
  interleaved' =
    [u \in Threads |->
       \/ interleaved[u]
       \/ Running(u) /\ \E v \in Threads \ {u} : Running(v)]

InitWith(templates) ==
  /\ defaults0 \in templates
  /\ heap = (DefaultsRef :> defaults0)
  /\ pc = [t \in Threads |-> "idle"]
  /\ provider = [t \in Threads |-> EmptyDict]
  /\ certs = [t \in Threads |-> EmptyDict]
  /\ idp_certificates = [t \in Threads |-> EmptyDict]
  /\ config = [t \in Threads |-> NoRef]
  /\ args = [t \in Threads |-> EmptyDict]
  /\ result = [t \in Threads |-> NoRef]
  /\ calls = 0
  /\ interleaved = [t \in Threads |-> FALSE]

Init == InitWith(Templates)

\* a caller invokes provider.get_provider_config(defaults)
Call(t, self) ==
  /\ pc[t] = "idle"
  /\ calls < MaxCalls
  /\ calls' = calls + 1
  /\ pc' = [pc EXCEPT ![t] = "certs"]
  /\ provider' = [provider EXCEPT ![t] = self]
  /\ UNCHANGED <<heap, defaults0, certs, idp_certificates, config, args,
                 result, interleaved>>

\* certs = dict(encryption=..., signing=...)
ReadCerts(t) ==
  /\ pc[t] = "certs"
  /\ certs' = [certs EXCEPT ![t] = read_certs(provider[t])]
  /\ pc' = [pc EXCEPT ![t] = "select"]
  /\ Interleave
  /\ UNCHANGED <<heap, defaults0, provider, idp_certificates, config, args,
                 result, calls>>

\* idp_certificates = dict(); if certs is not None: ...
SelectCertificates(t) ==
  /\ pc[t] = "select"
  /\ LET chosen == select_certificates(certs[t]) IN
       IF raises(chosen)
         THEN /\ pc' = [pc EXCEPT ![t] = "raised"]
              /\ UNCHANGED idp_certificates
         ELSE /\ pc' = [pc EXCEPT ![t] = "copy"]
              /\ idp_certificates' = [idp_certificates EXCEPT ![t] = chosen]
  /\ Interleave
  /\ UNCHANGED <<heap, defaults0, provider, certs, config, args, result,
                 calls>>

\* config = deepcopy(defaults)
CopyDefaults(t) ==
  /\ pc[t] = "copy"
  /\ LET copy == deepcopy(heap, DefaultsRef) IN
       /\ heap' = copy.heap
       /\ config' = [config EXCEPT ![t] = copy.ref]
  /\ pc' = [pc EXCEPT ![t] = "idp"]
  /\ Interleave
  /\ UNCHANGED <<defaults0, provider, certs, idp_certificates, args, result,
                 calls>>

\* first keyword argument of dict(...): the idp section
BuildIdp(t) ==
  /\ pc[t] = "idp"
  /\ args' = [args EXCEPT ![t] =
                SetItem(@, "idp", idp_section(provider[t], heap[config[t]],
                                              idp_certificates[t]))]
  /\ pc' = [pc EXCEPT ![t] = "sp"]
  /\ Interleave
  /\ UNCHANGED <<heap, defaults0, provider, certs, idp_certificates, config,
                 result, calls>>

\* second keyword argument: config.setdefault("sp", dict()) overlaid
BuildSp(t) ==
  /\ pc[t] = "sp"
  /\ heap' = setdefault(heap, config[t], "sp", EmptyDict)
  /\ args' = [args EXCEPT ![t] =
                SetItem(@, "sp", sp_section(provider[t],
                                            heap'[config[t]]["sp"]))]
  /\ pc' = [pc EXCEPT ![t] = "security"]
  /\ Interleave
  /\ UNCHANGED <<defaults0, provider, certs, idp_certificates, config,
                 result, calls>>

\* third keyword argument: config.setdefault("security", dict()) overlaid
BuildSecurity(t) ==
  /\ pc[t] = "security"
  /\ heap' = setdefault(heap, config[t], "security", EmptyDict)
  /\ args' = [args EXCEPT ![t] =
                SetItem(@, "security",
                        security_section(provider[t],
                                         heap'[config[t]]["security"]))]
  /\ pc' = [pc EXCEPT ![t] = "assemble"]
  /\ Interleave
  /\ UNCHANGED <<defaults0, provider, certs, idp_certificates, config,
                 result, calls>>

\* config = dict(...): config is rebound to the new dict
Assemble(t) ==
  /\ pc[t] = "assemble"
  /\ LET n == Fresh(heap) IN
       /\ config' = [config EXCEPT ![t] = n]
       /\ heap' = Collect((n :> assemble(heap[config[t]], args[t])) @@ heap,
                          {DefaultsRef} \cup {config'[u] : u \in Threads}
                                        \cup {result[u] : u \in Threads})
  /\ args' = [args EXCEPT ![t] = EmptyDict]
  /\ pc' = [pc EXCEPT ![t] = "flags"]
  /\ Interleave
  /\ UNCHANGED <<defaults0, provider, certs, idp_certificates, result,
                 calls>>

\* the three top-level flag assignments
SetFlags(t) ==
  /\ pc[t] = "flags"
  /\ heap' = [heap EXCEPT ![config[t]] = set_flags(provider[t], @)]
  /\ pc' = [pc EXCEPT ![t] = "return"]
  /\ Interleave
  /\ UNCHANGED <<defaults0, provider, certs, idp_certificates, config, args,
                 result, calls>>

\* return config
Return(t) ==
  /\ pc[t] = "return"
  /\ result' = [result EXCEPT ![t] = config[t]]
  /\ pc' = [pc EXCEPT ![t] = "done"]
  /\ Interleave
  /\ UNCHANGED <<heap, defaults0, provider, certs, idp_certificates, config,
                 args, calls>>

\* the caller is through with what the call gave it: the frame of the call
\* and the returned dict are released
Discard(t) ==
  /\ pc[t] \in {"done", "raised"}
  /\ pc' = [pc EXCEPT ![t] = "idle"]
  /\ provider' = [provider EXCEPT ![t] = EmptyDict]
  /\ certs' = [certs EXCEPT ![t] = EmptyDict]
  /\ idp_certificates' = [idp_certificates EXCEPT ![t] = EmptyDict]
  /\ config' = [config EXCEPT ![t] = NoRef]
  /\ args' = [args EXCEPT ![t] = EmptyDict]
  /\ result' = [result EXCEPT ![t] = NoRef]
  /\ heap' = Collect(heap, {DefaultsRef} \cup {config'[u] : u \in Threads}
                                         \cup {result'[u] : u \in Threads})
  /\ interleaved' = [interleaved EXCEPT ![t] = FALSE]
  /\ UNCHANGED <<defaults0, calls>>

Step(t) ==
  \/ ReadCerts(t)
  \/ SelectCertificates(t)
  \/ CopyDefaults(t)
  \/ BuildIdp(t)
  \/ BuildSp(t)
  \/ BuildSecurity(t)
  \/ Assemble(t)
  \/ SetFlags(t)
  \/ Return(t)
  \/ Discard(t)

\* one caller, calling again and again with any provider
Next ==
  \/ \E self \in SamlProvider : Call(MainThread, self)
  \/ Step(MainThread)

Spec == Init /\ [][Next]_vars

\* several callers sharing one defaults template
ConcurrentInit == InitWith(ConcurrentTemplates)

ConcurrentNext ==
  \/ \E t \in Threads : \E self \in ConcurrentProviders : Call(t, self)
  \/ \E t \in Threads : Step(t)

ConcurrentSpec == ConcurrentInit /\ [][ConcurrentNext]_vars

TypeOK ==
  \A t \in Threads :
    pc[t] \in Finished \cup {"certs", "select", "copy", "idp", "sp",
                             "security", "assemble", "flags", "return"}

----------------------------------------------------------------------------
(* The whole method run by itself on a private heap *)

get_provider_config(self, defaults) ==
  LET idp_certs == select_certificates(read_certs(self))
      copy == deepcopy(DefaultsRef :> defaults, DefaultsRef)
      h1 == setdefault(copy.heap, copy.ref, "sp", EmptyDict)
      h2 == setdefault(h1, copy.ref, "security", EmptyDict)
      a == [idp |-> idp_section(self, copy.heap[copy.ref], idp_certs),
            sp |-> sp_section(self, h1[copy.ref]["sp"]),
            security |-> security_section(self, h2[copy.ref]["security"])]
  IN set_flags(self, assemble(h2[copy.ref], a))

----------------------------------------------------------------------------
(* Vocabulary of the properties *)

Done(t) == pc[t] = "done"

\* the configuration returned by the call of thread t
Output(t) == heap[result[t]]

\* the certificate texts of the rows of a relation, row by row
Texts(rows) == [i \in DOMAIN rows |-> PEMCertificate[rows[i]].certificate]
Signing(t) == Texts(provider[t].signing)
Encryption(t) == Texts(provider[t].encryption)

\* one role holds exactly one certificate and the other none
OneRoleOnly(t) == Len(Signing(t)) + Len(Encryption(t)) = 1

\* both roles hold exactly one certificate, with the same text
SameSingle(t) ==
  /\ Len(Signing(t)) = 1
  /\ Len(Encryption(t)) = 1
  /\ Signing(t)[1] = Encryption(t)[1]

EmitsSingle(t, text) ==
  /\ "x509cert" \in DOMAIN Output(t)["idp"]
  /\ Output(t)["idp"]["x509cert"] = text
  /\ "x509certMulti" \notin DOMAIN Output(t)["idp"]

EmitsMulti(t, signing, encryption) ==
  /\ "x509certMulti" \in DOMAIN Output(t)["idp"]
  /\ DOMAIN Output(t)["idp"]["x509certMulti"] = {"signing", "encryption"}
  /\ Output(t)["idp"]["x509certMulti"]["signing"] = signing
  /\ Output(t)["idp"]["x509certMulti"]["encryption"] = encryption
  /\ "x509cert" \notin DOMAIN Output(t)["idp"]

\* the sub-object of the template under key, empty when absent
DefaultSection(key) ==
  IF key \in DOMAIN defaults0 THEN defaults0[key] ELSE EmptyDict

TopLevelKeys ==
  {"idp", "sp", "security", "debug", "lowercase_urlencoding",
   "idp_initiated_auth"}

----------------------------------------------------------------------------
(* Properties *)

\* C1: a provider with exactly one certificate in one role and none in the
\* other gets the single-certificate field: idp.x509cert is that certificate
\* and idp has no x509certMulti.
C1_OneRoleEmitsSingle ==
  \A t \in Threads :
    Done(t) /\ OneRoleOnly(t) =>
      EmitsSingle(t, (Signing(t) \o Encryption(t))[1])

\* C2: when signing is [X] and encryption is [X] with the same text, the
\* output has idp.x509cert = X and no x509certMulti.
C2_SameSingleEmitsSingle ==
  \A t \in Threads :
    Done(t) /\ SameSingle(t) => EmitsSingle(t, Signing(t)[1])

C2_Witness ==
  \E t \in Threads :
    /\ Done(t)
    /\ SameSingle(t)
    /\ provider[t].signing # provider[t].encryption
    /\ "x509cert" \in DOMAIN Output(t)["idp"]

\* C3: outside the two single-certificate cases (both lists empty, more than
\* one certificate in a list, or one each with different texts) the output
\* has idp.x509certMulti whose signing and encryption lists are the input
\* lists in the same order, and no x509cert.
C3_OtherwiseEmitsMulti ==
  \A t \in Threads :
    Done(t) /\ ~OneRoleOnly(t) /\ ~SameSingle(t) =>
      EmitsMulti(t, Signing(t), Encryption(t))

C3_Witness ==
  \E t \in Threads :
    /\ Done(t)
    /\ Len(Signing(t)) = 1
    /\ Len(Encryption(t)) = 1
    /\ Signing(t)[1] # Encryption(t)[1]
    /\ "x509certMulti" \in DOMAIN Output(t)["idp"]

\* C4: after any sequence of calls the defaults template equals its value
\* before the first call, also when it lacks sp or security.
C4_DefaultsNotMutated ==
  (\A t \in Threads : ~Running(t)) => heap[DefaultsRef] = defaults0

C4_Witness ==
  /\ calls > 1
  /\ \E t \in Threads : Done(t)
  /\ \A t \in Threads : ~Running(t)
  /\ "sp" \notin DOMAIN defaults0
  /\ "security" \notin DOMAIN defaults0

\* C5: with calls running concurrently on one shared template, the template
\* is unchanged at every point and every call returns the configuration it
\* returns when run alone.
C5_ConcurrentCallsIsolated ==
  /\ heap[DefaultsRef] = defaults0
  /\ \A t \in Threads :
       Done(t) => Output(t) = get_provider_config(provider[t], defaults0)

C5_Witness ==
  \E t, u \in Threads :
    /\ t # u
    /\ Done(t) /\ interleaved[t]
    /\ Done(u) /\ interleaved[u]
    /\ provider[t] # provider[u]
    /\ "sp" \notin DOMAIN defaults0

\* C6: the idp section comes from the provider alone: entityId,
\* singleSignOnService {url, binding} and exactly one of x509cert and
\* x509certMulti, whatever idp sub-object the defaults carry.
C6_IdpFromProviderOnly ==
  \A t \in Threads :
    Done(t) =>
      LET idp == Output(t)["idp"] IN
        /\ \/ DOMAIN idp = {"entityId", "singleSignOnService", "x509cert"}
           \/ DOMAIN idp = {"entityId", "singleSignOnService",
                            "x509certMulti"}
        /\ idp["entityId"] = provider[t].idp_issuer
        /\ DOMAIN idp["singleSignOnService"] = {"url", "binding"}
        /\ idp["singleSignOnService"]["url"] = provider[t].idp_sso_url
        /\ idp["singleSignOnService"]["binding"] = provider[t].idp_sso_binding

C6_Witness ==
  \E t \in Threads :
    /\ Done(t)
    /\ "idp" \in DOMAIN defaults0
    /\ defaults0["idp"]["entityId"] # provider[t].idp_issuer
    /\ "singleSignOnService" \in DOMAIN Output(t)["idp"]

\* C7: sp and security are overlays: every other key of the defaults'
\* sub-object is passed through unchanged, and the named keys carry the
\* provider's values even when the defaults set them.
C7_OverlaySpAndSecurity ==
  \A t \in Threads :
    Done(t) =>
      LET sp == Output(t)["sp"]
          security == Output(t)["security"]
          spNamed == {"entityId", "NameIDFormat", "assertionConsumerService"}
          securityNamed == {"wantMessagesSigned", "wantAssertionsSigned",
                            "wantAssertionsEncrypted"}
      IN
        /\ DOMAIN sp = spNamed \cup DOMAIN DefaultSection("sp")
        /\ \A k \in DOMAIN DefaultSection("sp") \ spNamed :
             sp[k] = DefaultSection("sp")[k]
        /\ sp["entityId"] = ""
        /\ sp["NameIDFormat"] = provider[t].nameidformat
        /\ DOMAIN sp["assertionConsumerService"] = {"url", "binding"}
        /\ sp["assertionConsumerService"]["url"] = ""
        /\ sp["assertionConsumerService"]["binding"] =
             provider[t].sp_acs_binding
        /\ DOMAIN security =
             securityNamed \cup DOMAIN DefaultSection("security")
        /\ \A k \in DOMAIN DefaultSection("security") \ securityNamed :
             security[k] = DefaultSection("security")[k]
        /\ security["wantMessagesSigned"] =
             provider[t].sec_want_messages_signed
        /\ security["wantAssertionsSigned"] =
             provider[t].sec_want_assertions_signed
        /\ security["wantAssertionsEncrypted"] =
             provider[t].sec_want_assertions_encrypted

C7_Witness ==
  \E t \in Threads :
    /\ Done(t)
    /\ "privateKey" \in DOMAIN DefaultSection("sp")
    /\ "authnRequestsSigned" \in DOMAIN DefaultSection("security")
    /\ DefaultSection("sp")["NameIDFormat"] # provider[t].nameidformat
    /\ DefaultSection("security")["wantMessagesSigned"] #
         provider[t].sec_want_messages_signed
    /\ "privateKey" \in DOMAIN Output(t)["sp"]

\* C8: the output has exactly the top-level keys idp, sp, security, debug,
\* lowercase_urlencoding, idp_initiated_auth; the three flags are the
\* provider's; no other top-level key of the defaults appears.
C8_ExactlySixTopLevelKeys ==
  \A t \in Threads :
    Done(t) =>
      /\ DOMAIN Output(t) = TopLevelKeys
      /\ Output(t)["debug"] = provider[t].debug
      /\ Output(t)["lowercase_urlencoding"] =
           provider[t].lowercase_urlencoding
      /\ Output(t)["idp_initiated_auth"] = provider[t].idp_initiated_auth

C8_Witness ==
  \E t \in Threads :
    /\ Done(t)
    /\ "strict" \in DOMAIN defaults0
    /\ "sp" \notin DOMAIN defaults0
    /\ defaults0["debug"] # provider[t].debug
    /\ "sp" \in DOMAIN Output(t)

\* C9: when a list has more than one entry, duplicate texts of distinct
\* records are kept: the output is x509certMulti and each of its lists has
\* one entry per record, in order.
C9_DuplicatesKept ==
  \A t \in Threads :
    Done(t) /\ (Len(provider[t].signing) > 1
                \/ Len(provider[t].encryption) > 1) =>
      /\ "x509cert" \notin DOMAIN Output(t)["idp"]
      /\ "x509certMulti" \in DOMAIN Output(t)["idp"]
      /\ LET multi == Output(t)["idp"]["x509certMulti"] IN
           \A role \in {"signing", "encryption"} :
             /\ Len(multi[role]) = Len(provider[t][role])
             /\ \A i \in 1..Len(provider[t][role]) :
                  multi[role][i] =
                    PEMCertificate[provider[t][role][i]].certificate

C9_Witness ==
  \E t \in Threads :
    /\ Done(t)
    /\ Len(provider[t].signing) = 2
    /\ Signing(t)[1] = Signing(t)[2]
    /\ Len(Output(t)["idp"]["x509certMulti"]["signing"]) = 2

\* C10: no call fails, whatever the sizes of the two lists: the certificate
\* selection never indexes an empty list, it always yields one certificate
\* field, and a finished call has a full configuration.
C10_NeverRaises ==
  \A t \in Threads :
    /\ pc[t] # "raised"
    /\ Running(t) /\ pc[t] \notin {"certs", "select"} =>
         Cardinality(DOMAIN idp_certificates[t]) = 1
    /\ Done(t) =>
         /\ TopLevelKeys \subseteq DOMAIN Output(t)
         /\ {"entityId", "singleSignOnService"} \subseteq
              DOMAIN Output(t)["idp"]
         /\ DOMAIN idp_certificates[t] \subseteq DOMAIN Output(t)["idp"]

C10_Witness ==
  \E t \in Threads :
    /\ Done(t)
    /\ Len(provider[t].signing) = 0
    /\ Len(provider[t].encryption) = 1
    /\ "idp" \in DOMAIN Output(t)

====
